---- MODULE Spec2Model ----
(***************************************************************************)
(* The blood-bank ledger: one JSON document on disk (inventory, donors,    *)
(* patients, logs), a Database object per running session that holds a     *)
(* copy of it in memory, and the Inventory operations on that copy.        *)
(*                                                                         *)
(* Both source variants (the console program and the form program) share   *)
(* the Database and Inventory classes line for line; line numbers below     *)
(* refer to src/unnamed/part_000 unless the form program is named.          *)
(*                                                                         *)
(* Granularity.  Inside one session the code is sequential, so a step of    *)
(* the model is "everything a handler does up to and including its next     *)
(* access to the file".  save() is two file accesses: open(path, "w")       *)
(* truncates the file, json.dump + close write the bytes.                   *)
(***************************************************************************)
EXTENDS Integers, Sequences, FiniteSets, TLC

VARIABLES
    file,   \* the persisted document: what the file at Database.path holds
    data,   \* data[p]: Database.data of session p (a dict: field -> value)
    pc,     \* pc[p]: where session p stands in its current handler
    call,   \* call[p]: the current / most recent operation of session p
    ops     \* how many state-changing operations have been started so far

vars == <<file, data, pc, call, ops>>

----------------------------------------------------------------------------
(* Program constants *)

VALID_TYPES == {"A+", "A-", "B+", "B-", "AB+", "AB-", "O+", "O-"}

StartQty == 2000

CRITICAL_THRESHOLD == 500

FIELDS == {"inventory", "donors", "patients", "logs"}

----------------------------------------------------------------------------
(* Bounds of the model *)

\* No operation starts once MaxOps operations have changed the document
\* (MaxOpsTwo when two sessions run).  Rejected calls are not counted.
MaxOps == 2

MaxOpsTwo == 2

\* Longest list of donation records searched.
MaxRecs == 2

Sessions == {1, 2}

\* Blood-type arguments tried: two valid codes and one that is not a code.
BloodArgs == {"O-", "A+", "XX"}

\* Amount arguments tried: negative, zero, below / equal to / above the stock.
Amounts == {-100, 0, 500, 2000, 2500}

----------------------------------------------------------------------------
(* Python dicts as functions *)

EmptyDoc == [k \in {} |-> 0]

\* d[k] = v
Put(d, k, v) == [x \in (DOMAIN d) \cup {k} |-> IF x = k THEN v ELSE d[x]]

\* d.get(k, dflt)
Get(d, k, dflt) == IF k \in DOMAIN d THEN d[k] ELSE dflt

\* d.setdefault(k, dflt) as the dict it leaves behind
SetDefault(d, k, dflt) == IF k \in DOMAIN d THEN d ELSE Put(d, k, dflt)

----------------------------------------------------------------------------
(* The file *)

\* file.by is the session whose bytes the file holds (0: none of them).
AbsentFile == [kind |-> "absent", doc |-> EmptyDoc, by |-> 0]

\* bytes that json.load rejects and no session wrote (a hand-edited file)
CorruptFile == [kind |-> "corrupt", doc |-> EmptyDoc, by |-> 0]

\* bytes that are not UTF-8 text (a file cut inside a multi-byte character,
\* or binary garbage): reading them raises before json can parse anything
UndecodableFile == [kind |-> "undecodable", doc |-> EmptyDoc, by |-> 0]

\* open(path, "w") by session p: the file exists and holds no bytes.
open_w(p) == [kind |-> "empty", doc |-> EmptyDoc, by |-> p]

\* Faulty variant of json_dump: only the inventory is serialised.
json_dump_inventory_only(f, p, d) ==
    {[kind |-> "json", doc |-> [k \in {"inventory"} |-> d[k]], by |-> p]}

\* json.dump(d, f) and the close that flushes it, by session p.  An empty
\* file receives exactly the serialisation of d.  A file another session has
\* written since p opened it is overwritten from offset 0: the result is d
\* when d's text is at least as long as what is there, and d followed by the
\* other text's tail (which json.load rejects) when it is shorter.  The model
\* does not carry byte lengths, so both outcomes are possible.
json_dump(f, p, d) ==
    IF f.kind = "empty"
    THEN {[kind |-> "json", doc |-> d, by |-> p]}
    ELSE {[kind |-> "json", doc |-> d, by |-> p],
          [kind |-> "corrupt", doc |-> EmptyDoc, by |-> p]}

os_path_exists(f) == f.kind # "absent"

\* json.load(f) reads the file as UTF-8 text first; bytes that do not decode
\* raise UnicodeDecodeError, which the except-clause of load() (it names
\* json.JSONDecodeError only) lets through.
read_raises(f) == f.kind = "undecodable"

\* json.load(f) with the except-clause of load(): a JSONDecodeError gives {}.
json_load(f) == IF f.kind = "json" THEN f.doc ELSE EmptyDoc

----------------------------------------------------------------------------
(* Database *)

\* Faulty variant of DefaultInventory: one code is left out.
DefaultInventory_without_O_negative == [t \in VALID_TYPES \ {"O-"} |-> StartQty]

DefaultInventory == [t \in VALID_TYPES |-> StartQty]

\* Faulty variant of ensure_structure: the logs are reset on every call.
ensure_structure_resetting_logs(d) ==
    Put(SetDefault(SetDefault(SetDefault(d,
        "inventory", DefaultInventory), "donors", <<>>), "patients", <<>>),
        "logs", <<>>)

\* Database.ensure_structure, the dict it leaves in self.data
ensure_structure(d) ==
    SetDefault(SetDefault(SetDefault(SetDefault(d,
        "inventory", DefaultInventory), "donors", <<>>), "patients", <<>>),
        "logs", <<>>)

\* the flag `changed` of ensure_structure: some top-level key was missing
changed(d) == \E k \in FIELDS : k \notin DOMAIN d

\* An audit entry.  The code formats "<timestamp> - <message>"; the model keeps
\* the message's parts (template, text argument, key argument, two numbers)
\* and leaves the wall-clock timestamp out.
Entry(msg, text, key, n, total) ==
    [msg |-> msg, text |-> text, key |-> key, n |-> n, total |-> total]

\* Faulty variant of log: the entry is appended twice.
log_twice(d, entry) ==
    Put(d, "logs", Append(Append(Get(d, "logs", <<>>), entry), entry))

\* Faulty variant of log: the newest entry is put first.
log_newest_first(d, entry) == Put(d, "logs", <<entry>> \o Get(d, "logs", <<>>))

\* Database.log, its effect on self.data (the save() that follows is a
\* separate file access)
log(d, entry) == Put(d, "logs", Append(Get(d, "logs", <<>>), entry))

----------------------------------------------------------------------------
(* Inventory *)

\* Inventory.get_amount on the dict inv
get_amount(inv, btype) == Get(inv, btype, 0)

\* Faulty variant of valid_args: the amount test written `amount < 0`, so
\* that a zero amount passes.
valid_args_zero_passes(btype, amount) == btype \in VALID_TYPES /\ amount >= 0

\* the validation shared by add_blood and remove_blood (negated guard)
valid_args(btype, amount) == btype \in VALID_TYPES /\ amount > 0

\* Faulty variant of add_to: the amount replaces the quantity (`=` for `+=`).
add_to_overwriting(inv, btype, amount) == Put(inv, btype, amount)

\* inv[btype] = inv.get(btype, 0) + amount
add_to(inv, btype, amount) == Put(inv, btype, Get(inv, btype, 0) + amount)

\* Faulty variant of enough: no stock test at all.
enough_unchecked(inv, btype, amount) == TRUE

\* Faulty variant of enough: the stock test written `amount >= current`, so
\* that the whole stock cannot be taken.
enough_strict(inv, btype, amount) == ~(amount >= Get(inv, btype, 0))

\* the stock test of remove_blood (negated guard `amount > current`)
enough(inv, btype, amount) == ~(amount > Get(inv, btype, 0))

\* inv[btype] = current - amount
remove_from(inv, btype, amount) == Put(inv, btype, Get(inv, btype, 0) - amount)

\* Inventory.list_inventory: a copy of the dict
list_inventory(inv) == [t \in DOMAIN inv |-> inv[t]]

\* the types check_alerts reports
alerts(inv) == {t \in DOMAIN list_inventory(inv) :
                    list_inventory(inv)[t] < CRITICAL_THRESHOLD}

AddedEntry(inv, btype, amount) ==
    Entry("Added", <<>>, btype, amount, inv[btype])

RemovedEntry(inv, btype, amount) ==
    Entry("Removed", <<>>, btype, amount, inv[btype])

----------------------------------------------------------------------------
(* People and transaction records *)

\* Identity typed at the prompts (Staff.input_basic): a name, as the sequence
\* of its characters, and a numeric id.  E-mail, age, phone and the dates are
\* copied into the records verbatim and read by no operation; they are left
\* out.
Al == [name |-> <<"A", "l">>, id |-> 7]

Bo == [name |-> <<"B", "o", "-">>, id |-> 12]

People == {Al, Bo}

NoOne == [name |-> <<>>, id |-> 0]

\* Faulty variant of donor_rec: the amount is the constructor's 0, not what
\* was donated.
donor_rec_amount_unset(who, btype, amount) ==
    [name |-> who.name, id |-> who.id,
     donated_amount |-> 0, blood_type |-> btype]

\* donor_rec of Donor.donate
donor_rec(who, btype, amount) ==
    [name |-> who.name, id |-> who.id,
     donated_amount |-> amount, blood_type |-> btype]

\* rec of Patient.request_blood
patient_rec(who, btype, amount) ==
    [name |-> who.name, id |-> who.id,
     required_amount |-> amount, blood_type |-> btype]

\* self.db.data.setdefault(key, []).append(rec)
append_rec(d, key, rec) == Put(d, key, Append(Get(d, key, <<>>), rec))

\* Donor.donated_amount when donate() runs: 0 as the constructor leaves it,
\* or what donation_data accepted (50 <= amount <= 500).
DonationAmounts == {a \in Amounts : a = 0 \/ (50 <= a /\ a <= 500)}

\* Patient.required_amount when request_blood() runs: 0 as the constructor
\* leaves it, or what patient_data accepted (amount > 0).
RequestAmounts == {a \in Amounts : a >= 0}

----------------------------------------------------------------------------
(* Text: str.lower, str.isdigit, int(), `in`, over the characters in use *)

Uppers == <<"A", "B", "O", "L">>
Lowers == <<"a", "b", "o", "l">>
Digits == <<"0", "1", "2", "3", "4", "5", "6", "7", "8", "9">>

lower_char(c) ==
    IF \E i \in DOMAIN Uppers : Uppers[i] = c
    THEN Lowers[CHOOSE i \in DOMAIN Uppers : Uppers[i] = c]
    ELSE c

\* str.lower()
lower(s) == [i \in DOMAIN s |-> lower_char(s[i])]

\* Characters str.isdigit() accepts and int() does not: the superscript
\* digits and their like ("^2" stands for the one character U+00B2).
OtherDigits == {"^2"}

\* str.strip() of the blank
RECURSIVE strip(_)
strip(s) ==
    IF Len(s) > 0 /\ s[1] = " " THEN strip(Tail(s))
    ELSE IF Len(s) > 0 /\ s[Len(s)] = " " THEN strip(SubSeq(s, 1, Len(s) - 1))
    ELSE s

\* str.isdigit(): non-empty and every character a digit
isdigit(s) ==
    /\ Len(s) > 0
    /\ \A i \in DOMAIN s :
          \/ \E k \in DOMAIN Digits : Digits[k] = s[i]
          \/ s[i] \in OtherDigits

\* int(s) raises ValueError: some character is not a decimal digit
int_raises(s) == \E i \in DOMAIN s : \A k \in DOMAIN Digits : Digits[k] # s[i]

digit_value(c) == (CHOOSE k \in DOMAIN Digits : Digits[k] = c) - 1

\* int(s) for a string of digits
RECURSIVE int(_)
int(s) ==
    IF Len(s) = 0 THEN 0
    ELSE 10 * int(SubSeq(s, 1, Len(s) - 1)) + digit_value(s[Len(s)])

\* `a in b` for strings
contains(b, a) ==
    \E i \in 1..(Len(b) - Len(a) + 1) : SubSeq(b, i, i + Len(a) - 1) = a

\* the characters of a blood-type code (codes are atoms elsewhere in the model)
chars(btype) ==
    CASE btype = "A+"  -> <<"A", "+">>
      [] btype = "A-"  -> <<"A", "-">>
      [] btype = "B+"  -> <<"B", "+">>
      [] btype = "B-"  -> <<"B", "-">>
      [] btype = "AB+" -> <<"A", "B", "+">>
      [] btype = "AB-" -> <<"A", "B", "-">>
      [] btype = "O+"  -> <<"O", "+">>
      [] btype = "O-"  -> <<"O", "-">>
      [] OTHER         -> <<>>

\* search_records, one record: the name test fails, isdigit() lets the term
\* through and int() then raises
raises_at(term, record) ==
    /\ ~contains(lower(record.name), term)
    /\ isdigit(term) /\ int_raises(term)

\* search_records: the loop raises at some record
search_raises(records, term) ==
    \E i \in DOMAIN records : raises_at(term, records[i])

\* search_records, the test applied to one record; term is what was typed
\* after .strip().lower()
matches(term, record) ==
    \/ contains(lower(record.name), term)
    \/ isdigit(term) /\ int(term) = record.id
    \/ term = lower(chars(record.blood_type))

\* search_records, the list `results`
search(records, term) == SelectSeq(records, LAMBDA r : matches(term, r))

\* Search terms typed at the prompt.
Terms == { <<"A">>, <<"7">>, <<"O", "-">> }

----------------------------------------------------------------------------
(* Bookkeeping of calls *)

CallRec(op, btype, amount, who, pre, ret) ==
    [op |-> op, btype |-> btype, amount |-> amount, who |-> who,
     pre |-> pre, ret |-> ret, arg |-> <<>>, out |-> <<>>]

NoCall == CallRec("none", "", 0, NoOne, EmptyDoc, "none")

Returns(p, ret) == call' = [call EXCEPT ![p].ret = ret]

OpsCap == IF \E q \in Sessions : pc[q] = "off" THEN MaxOps ELSE MaxOpsTwo

Idle(p) == pc[p] = "idle" /\ ops < OpsCap

----------------------------------------------------------------------------
(* Initial states *)

\* No document yet, or a file that does not parse; one session is about to
\* start.
Init ==
    /\ file \in {AbsentFile, CorruptFile}
    /\ data = [p \in Sessions |-> EmptyDoc]
    /\ pc = [p \in Sessions |-> IF p = 1 THEN "start" ELSE "off"]
    /\ call = [p \in Sessions |-> NoCall]
    /\ ops = 0

\* The same, with two sessions on the one file.
InitTwo ==
    /\ file \in {AbsentFile, CorruptFile}
    /\ data = [p \in Sessions |-> EmptyDoc]
    /\ pc = [p \in Sessions |-> "start"]
    /\ call = [p \in Sessions |-> NoCall]
    /\ ops = 0

----------------------------------------------------------------------------
(* Actions *)

\* Database.__init__ -> load(): read the file (or find none), default the
\* missing fields and, if any was missing, start the save().
Load(p) ==
    /\ pc[p] = "start"
    /\ IF os_path_exists(file) /\ read_raises(file)
       THEN \* the exception leaves the constructor: no Database, no session
            /\ call' = [call EXCEPT ![p] =
                           CallRec("load", "", 0, NoOne, EmptyDoc, "raised")]
            /\ UNCHANGED <<file, data, pc>>
       ELSE LET read == IF os_path_exists(file) THEN json_load(file) ELSE EmptyDoc
            IN  /\ data' = [data EXCEPT ![p] = ensure_structure(read)]
                /\ IF changed(read)
                   THEN /\ file' = open_w(p)
                        /\ pc' = [pc EXCEPT ![p] = "load_w"]
                   ELSE /\ UNCHANGED file
                        /\ pc' = [pc EXCEPT ![p] = "idle"]
                /\ call' = [call EXCEPT ![p] = NoCall]
    /\ UNCHANGED ops

\* The second half of every save(): json.dump and close.
SaveWrite(p) ==
    /\ pc[p] \in {"load_w", "inv_w", "log_w", "rec_w"}
    /\ file' \in json_dump(file, p, data[p])
    /\ UNCHANGED <<data, ops>>
    /\ CASE pc[p] = "load_w" ->
                /\ pc' = [pc EXCEPT ![p] = "idle"]
                /\ UNCHANGED call
         [] pc[p] = "inv_w" ->
                /\ pc' = [pc EXCEPT ![p] = "log"]
                /\ UNCHANGED call
         [] pc[p] = "log_w" /\ call[p].op \in {"donate", "request_blood"} ->
                /\ pc' = [pc EXCEPT ![p] = "rec"]
                /\ UNCHANGED call
         [] pc[p] = "log_w" /\ call[p].op \notin {"donate", "request_blood"} ->
                /\ pc' = [pc EXCEPT ![p] = "idle"]
                /\ Returns(p, "True")
         [] pc[p] = "rec_w" ->
                /\ pc' = [pc EXCEPT ![p] = "idle"]
                /\ Returns(p, "True")

\* add_blood from its first line to the open() of its save(): validation,
\* the new quantity.
StartCredit(p, op, who, btype, amount) ==
    IF valid_args(btype, amount)
    THEN /\ data' = [data EXCEPT ![p] =
                        Put(@, "inventory", add_to(@["inventory"], btype, amount))]
         /\ file' = open_w(p)
         /\ pc' = [pc EXCEPT ![p] = "inv_w"]
         /\ call' = [call EXCEPT ![p] =
                        CallRec(op, btype, amount, who, data[p], "pending")]
         /\ ops' = ops + 1
    ELSE /\ call' = [call EXCEPT ![p] =
                        CallRec(op, btype, amount, who, data[p], "False")]
         /\ UNCHANGED <<data, file, pc, ops>>

\* remove_blood from its first line to the open() of its save().
StartDebit(p, op, who, btype, amount) ==
    IF valid_args(btype, amount) /\ enough(data[p]["inventory"], btype, amount)
    THEN /\ data' = [data EXCEPT ![p] =
                        Put(@, "inventory", remove_from(@["inventory"], btype, amount))]
         /\ file' = open_w(p)
         /\ pc' = [pc EXCEPT ![p] = "inv_w"]
         /\ call' = [call EXCEPT ![p] =
                        CallRec(op, btype, amount, who, data[p], "pending")]
         /\ ops' = ops + 1
    ELSE /\ call' = [call EXCEPT ![p] =
                        CallRec(op, btype, amount, who, data[p], "False")]
         /\ UNCHANGED <<data, file, pc, ops>>

\* Inventory.add_blood called on its own (the form program's manual
\* adjustment, or any caller of the class).
AddBlood(p, btype, amount) ==
    /\ Idle(p)
    /\ StartCredit(p, "add_blood", NoOne, btype, amount)

\* Inventory.remove_blood called on its own.
RemoveBlood(p, btype, amount) ==
    /\ Idle(p)
    /\ StartDebit(p, "remove_blood", NoOne, btype, amount)

\* Faulty variant of Donate: the result of add_blood is ignored and the
\* record is appended whether or not the credit went through.
Donate_ignoring_ok(p, who, btype, amount) ==
    /\ Idle(p)
    /\ IF btype \notin VALID_TYPES
       THEN /\ call' = [call EXCEPT ![p] =
                           CallRec("donate", btype, amount, who, data[p], "False")]
            /\ UNCHANGED <<data, file, pc, ops>>
       ELSE IF valid_args(btype, amount)
       THEN StartCredit(p, "donate", who, btype, amount)
       ELSE /\ data' = [data EXCEPT ![p] =
                    append_rec(@, "donors", donor_rec(who, btype, amount))]
            /\ file' = open_w(p)
            /\ pc' = [pc EXCEPT ![p] = "rec_w"]
            /\ call' = [call EXCEPT ![p] =
                           CallRec("donate", btype, amount, who, data[p], "pending")]
            /\ ops' = ops + 1

\* Donor.donate: the blood type typed at the prompt is checked first, then
\* add_blood runs.
Donate(p, who, btype, amount) ==
    /\ Idle(p)
    /\ IF btype \notin VALID_TYPES
       THEN /\ call' = [call EXCEPT ![p] =
                           CallRec("donate", btype, amount, who, data[p], "False")]
            /\ UNCHANGED <<data, file, pc, ops>>
       ELSE StartCredit(p, "donate", who, btype, amount)

\* Patient.request_blood
RequestBlood(p, who, btype, amount) ==
    /\ Idle(p)
    /\ StartDebit(p, "request_blood", who, btype, amount)

\* add_blood / remove_blood after their save(): db.log(...) up to the open()
\* of the save() inside log.
LogMutation(p) ==
    /\ pc[p] = "log"
    /\ LET inv == data[p]["inventory"]
           c == call[p]
           e == IF c.op \in {"add_blood", "donate"}
                THEN AddedEntry(inv, c.btype, c.amount)
                ELSE RemovedEntry(inv, c.btype, c.amount)
       IN  data' = [data EXCEPT ![p] = log(@, e)]
    /\ file' = open_w(p)
    /\ pc' = [pc EXCEPT ![p] = "log_w"]
    /\ UNCHANGED <<call, ops>>

\* Faulty variant of Record: the record is appended and success reported
\* without the save() that should follow.
Record_unsaved(p) ==
    /\ pc[p] = "rec"
    /\ LET c == call[p]
       IN  data' = [data EXCEPT ![p] =
                IF c.op = "donate"
                THEN append_rec(@, "donors", donor_rec(c.who, c.btype, c.amount))
                ELSE append_rec(@, "patients", patient_rec(c.who, c.btype, c.amount))]
    /\ pc' = [pc EXCEPT ![p] = "idle"]
    /\ Returns(p, "True")
    /\ UNCHANGED <<file, ops>>

\* donate / request_blood after a successful ledger call: append the record,
\* up to the open() of the save() that follows.
Record(p) ==
    /\ pc[p] = "rec"
    /\ LET c == call[p]
       IN  data' = [data EXCEPT ![p] =
                IF c.op = "donate"
                THEN append_rec(@, "donors", donor_rec(c.who, c.btype, c.amount))
                ELSE append_rec(@, "patients", patient_rec(c.who, c.btype, c.amount))]
    /\ file' = open_w(p)
    /\ pc' = [pc EXCEPT ![p] = "rec_w"]
    /\ UNCHANGED <<call, ops>>

\* A handler whose only effect is one db.log(entry): the append, up to the
\* open() of the save() inside log.
LogOnly(p, op, entry) ==
    /\ Idle(p)
    /\ data' = [data EXCEPT ![p] = log(@, entry)]
    /\ file' = open_w(p)
    /\ pc' = [pc EXCEPT ![p] = "log_w"]
    /\ call' = [call EXCEPT ![p] = CallRec(op, "", 0, NoOne, data[p], "pending")]
    /\ ops' = ops + 1

\* main, menu choice 1: "Staff entry: <name> (ID: <id>)"
StaffEntry(p, who) ==
    /\ who \in People
    /\ LogOnly(p, "staff", Entry("Staff entry", who.name, "", who.id, 0))

\* search_records: "Search performed for '<term>' in <key>. Found <n> records."
\* call[p].arg keeps the collection and the term, call[p].out the results.
SearchRecords(p, key, typed) ==
    LET search_term == lower(strip(typed))
        records == Get(data[p], key, <<>>)
        asked == [CallRec("search", "", 0, NoOne, data[p], "pending")
                    EXCEPT !.arg = <<key>> \o search_term]
    IN  /\ Idle(p)
        /\ Len(search_term) > 0
        /\ IF search_raises(records, search_term)
           THEN \* ValueError leaves search_records: nothing found, no entry
                /\ call' = [call EXCEPT ![p] = [asked EXCEPT !.ret = "raised"]]
                /\ UNCHANGED <<file, data, pc, ops>>
           ELSE LET results == search(records, search_term)
                IN  /\ data' = [data EXCEPT ![p] =
                            log(@, Entry("Search performed", search_term, key,
                                         Len(results), 0))]
                    /\ file' = open_w(p)
                    /\ pc' = [pc EXCEPT ![p] = "log_w"]
                    /\ call' = [call EXCEPT ![p] = [asked EXCEPT !.out = results]]
                    /\ ops' = ops + 1

\* check_alerts, run before every menu: returns True when some type is low
CheckAlerts(p) ==
    /\ pc[p] = "idle"
    /\ call' = [call EXCEPT ![p] =
                   CallRec("check_alerts", "", 0, NoOne, data[p],
                           IF alerts(data[p]["inventory"]) # {}
                           THEN "True" ELSE "False")]
    /\ UNCHANGED <<file, data, pc, ops>>

\* print_inventory: the listing of list_inventory()
PrintInventory(p) ==
    /\ pc[p] = "idle"
    /\ list_inventory(data[p]["inventory"]) = data[p]["inventory"]
    /\ call' = [call EXCEPT ![p] =
                   CallRec("print_inventory", "", 0, NoOne, data[p], "None")]
    /\ UNCHANGED <<file, data, pc, ops>>

\* Faulty variant of GenerateReports: the db.log call is missing.
GenerateReports_without_log(p) ==
    /\ Idle(p)
    /\ call' = [call EXCEPT ![p] = CallRec("report", "", 0, NoOne, data[p], "True")]
    /\ ops' = ops + 1
    /\ UNCHANGED <<file, data, pc>>

\* generate_reports: "Generated comprehensive reports."
GenerateReports(p) ==
    /\ "donors" \in DOMAIN data[p] /\ "patients" \in DOMAIN data[p]
    /\ LogOnly(p, "report", Entry("Generated comprehensive reports.", <<>>, "", 0, 0))

\* view_transaction_history: "Viewed <key> transaction history."
ViewHistory(p, key) ==
    /\ key \in {"donors", "patients"}
    /\ LogOnly(p, "history", Entry("Viewed transaction history", <<>>, key, 0, 0))

\* The program ends (menu choice 0, or the session is closed); the next
\* start constructs a new Database.
Exit(p) ==
    /\ pc[p] = "idle"
    /\ pc' = [pc EXCEPT ![p] = "start"]
    /\ data' = [data EXCEPT ![p] = EmptyDoc]
    /\ call' = [call EXCEPT ![p] = NoCall]
    /\ UNCHANGED <<file, ops>>

Next ==
    \E p \in Sessions :
        \/ Load(p)
        \/ SaveWrite(p)
        \/ \E b \in BloodArgs, a \in Amounts : AddBlood(p, b, a)
        \/ \E b \in BloodArgs, a \in Amounts : RemoveBlood(p, b, a)
        \/ \E w \in People, b \in BloodArgs, a \in DonationAmounts :
                Donate(p, w, b, a)
        \/ \E w \in People, b \in BloodArgs, a \in RequestAmounts :
                RequestBlood(p, w, b, a)
        \/ LogMutation(p)
        \/ Record(p)
        \/ \E w \in People : StaffEntry(p, w)
        \/ \E k \in {"donors", "patients"}, t \in Terms : SearchRecords(p, k, t)
        \/ GenerateReports(p)
        \/ \E k \in {"donors", "patients"} : ViewHistory(p, k)
        \/ CheckAlerts(p)
        \/ PrintInventory(p)
        \/ Exit(p)

Spec == Init /\ [][Next]_vars

\* Two sessions on the one file: the ledger operations, each with one choice
\* of arguments, and a restart.
NextTwo ==
    \E p \in Sessions :
        \/ Load(p)
        \/ SaveWrite(p)
        \/ AddBlood(p, "O-", 500)
        \/ RemoveBlood(p, "O-", 2000)
        \/ Donate(p, Al, "A+", 500)
        \/ RequestBlood(p, Al, "A+", 500)
        \/ LogMutation(p)
        \/ Record(p)
        \/ StaffEntry(p, Al)
        \/ Exit(p)

SpecTwo == InitTwo /\ [][NextTwo]_vars

----------------------------------------------------------------------------
(* A session that finds a document somebody else left on disk *)

\* Inventories a found document may hold: the defaults, one with a low
\* quantity, one with a single code, one with no code at all.
StoredInventories ==
    {DefaultInventory,
     [DefaultInventory EXCEPT !["AB-"] = 300],
     [t \in {"O-"} |-> 300],
     [t \in {} |-> 0]}

StoredDonors == {<<>>, <<donor_rec(Al, "O-", 500)>>}

StoredPatients == {<<>>, <<patient_rec(Bo, "A+", 500)>>}

StoredLogs == {<<>>, <<Entry("Staff entry", Al.name, "", Al.id, 0)>>}

\* a top-level key is there with one of its values, or it is missing
Options(values) ==
    {[has |-> TRUE, val |-> v] : v \in values} \cup
    {[has |-> FALSE, val |-> CHOOSE v \in values : TRUE]}

WithOption(d, k, o) == IF o.has THEN Put(d, k, o.val) ELSE d

\* The JSON objects tried as the file's content: every subset of the four
\* top-level keys, each key with each of its values.
StoredDocs ==
    {WithOption(WithOption(WithOption(WithOption(EmptyDoc,
        "inventory", i), "donors", d), "patients", pt), "logs", l) :
        i \in Options(StoredInventories), d \in Options(StoredDonors),
        pt \in Options(StoredPatients), l \in Options(StoredLogs)}

\* One session is about to start on a file that is absent, is not text, is
\* text json.load rejects, or holds one of the objects above.
InitStore ==
    /\ file \in {AbsentFile, CorruptFile, UndecodableFile} \cup
                 {[kind |-> "json", doc |-> d, by |-> 0] : d \in StoredDocs}
    /\ data = [p \in Sessions |-> EmptyDoc]
    /\ pc = [p \in Sessions |-> IF p = 1 THEN "start" ELSE "off"]
    /\ call = [p \in Sessions |-> NoCall]
    /\ ops = 0

\* Database.ensure_structure called on a session's document after load() has
\* already run it: the defaulting applied a further time.
EnsureStructure(p) ==
    /\ pc[p] = "idle"
    /\ data' = [data EXCEPT ![p] = ensure_structure(@)]
    /\ IF changed(data[p])
       THEN /\ file' = open_w(p)
            /\ pc' = [pc EXCEPT ![p] = "load_w"]
       ELSE UNCHANGED <<file, pc>>
    /\ call' = [call EXCEPT ![p] =
                   CallRec("ensure_structure", "", 0, NoOne, data[p], "None")]
    /\ UNCHANGED ops

NextStore ==
    \E p \in Sessions :
        \/ Load(p)
        \/ SaveWrite(p)
        \/ EnsureStructure(p)
        \/ \E b \in {"O-", "A+"} : AddBlood(p, b, 500)
        \/ \E b \in {"O-", "A+"} : RemoveBlood(p, b, 500)
        \/ LogMutation(p)
        \/ Exit(p)

SpecStore == InitStore /\ [][NextStore]_vars

----------------------------------------------------------------------------
(* Searches over records that are already on file *)

\* Records on file: at most MaxRecs donations, one request.
SearchRecs == {donor_rec(w, b, 500) : w \in People, b \in {"O-", "A+"}}

RecLists == UNION {[1..n -> SearchRecs] : n \in 0..MaxRecs}

\* What is typed as the term: upper case, leading zeros, blanks around it,
\* a superscript digit.
SearchTerms ==
    { <<"A", "L">>, <<"0", "7">>, <<" ", "o", "-", " ">>, <<"a", "+">>, <<"^2">> }

InitSearch ==
    /\ file \in {[kind |-> "json", by |-> 0,
                  doc |-> Put(Put(ensure_structure(EmptyDoc), "donors", l),
                              "patients", <<patient_rec(Bo, "A+", 500)>>)] :
                 l \in RecLists}
    /\ data = [p \in Sessions |-> EmptyDoc]
    /\ pc = [p \in Sessions |-> IF p = 1 THEN "start" ELSE "off"]
    /\ call = [p \in Sessions |-> NoCall]
    /\ ops = 0

NextSearch ==
    \E p \in Sessions :
        \/ Load(p)
        \/ SaveWrite(p)
        \/ \E k \in {"donors", "patients"}, t \in SearchTerms :
                SearchRecords(p, k, t)
        \/ Exit(p)

SpecSearch == InitSearch /\ [][NextSearch]_vars

----------------------------------------------------------------------------
(* Donations and requests only *)

\* One session from a fresh start: the donation and request flows with any
\* of the arguments, no direct add_blood / remove_blood.
NextFlows ==
    \E p \in Sessions :
        \/ Load(p)
        \/ SaveWrite(p)
        \/ \E w \in People, b \in BloodArgs, a \in DonationAmounts :
                Donate(p, w, b, a)
        \/ \E w \in People, b \in BloodArgs, a \in RequestAmounts :
                RequestBlood(p, w, b, a)
        \/ LogMutation(p)
        \/ Record(p)
        \/ Exit(p)

SpecFlows == Init /\ [][NextFlows]_vars

----------------------------------------------------------------------------
(* A save() that fails *)

\* The write of a save() raises OSError (the disk is full, the device is
\* gone): open(path, "w") has truncated the file, json.dump or the close that
\* flushes it fails.  Neither save() nor add_blood / remove_blood / log nor
\* donate / request_blood has a handler, so the exception ends the operation;
\* the form program reports it (its donor and patient pages catch Exception)
\* and the session goes on with the Database object as it is.
SaveRaises(p) ==
    /\ pc[p] \in {"inv_w", "log_w", "rec_w"}
    /\ pc' = [pc EXCEPT ![p] = "idle"]
    /\ Returns(p, "raised")
    /\ UNCHANGED <<file, data, ops>>

\* One session, the ledger operations and the two flows, with saves that
\* may fail.
NextIO ==
    \E p \in Sessions :
        \/ Load(p)
        \/ SaveWrite(p)
        \/ SaveRaises(p)
        \/ AddBlood(p, "O-", 500)
        \/ RemoveBlood(p, "O-", 500)
        \/ Donate(p, Al, "A+", 500)
        \/ RequestBlood(p, Bo, "A+", 500)
        \/ LogMutation(p)
        \/ Record(p)
        \/ Exit(p)

SpecIO == Init /\ [][NextIO]_vars

----------------------------------------------------------------------------
(* Vocabulary of the properties *)

IsPrefix(s, t) == Len(s) <= Len(t) /\ SubSeq(t, 1, Len(s)) = s

Running == {p \in Sessions : pc[p] \notin {"off", "start"}}

CreditOps == {"add_blood", "donate"}
DebitOps == {"remove_blood", "request_blood"}
LedgerOps == CreditOps \cup DebitOps

\* the call of session p has returned
Returned(p) == call[p].ret \in {"True", "False"}

\* the arguments of a call pass the type / amount validation of the contract
GoodArgs(c) == c.btype \in VALID_TYPES /\ c.amount > 0

Qty(d, t) == d["inventory"][t]

----------------------------------------------------------------------------
(* C1 *)

\* C1: after any sequence of add_blood / remove_blood calls (any blood-type
\* argument, any integer amount) on a defaulted document, every quantity of
\* the inventory is >= 0 -- in the document each session holds and in the
\* document on disk.
C1_QuantitiesNonNegative ==
    /\ \A p \in Running : \A t \in DOMAIN data[p]["inventory"] : Qty(data[p], t) >= 0
    /\ file.kind = "json" => \A t \in DOMAIN file.doc["inventory"] : Qty(file.doc, t) >= 0

\* C1's case: a type's stock is down to 0 and a further debit of it has been
\* turned away.
C1_Witness ==
    \E p \in Running :
        /\ call[p].op = "remove_blood" /\ call[p].ret = "False"
        /\ GoodArgs(call[p])
        /\ Qty(data[p], call[p].btype) = 0

----------------------------------------------------------------------------
(* C2 *)

\* C2: for a valid blood type and an amount > 0, a debit returns success if
\* and only if amount <= the quantity held before the call; on success the
\* quantity goes down by exactly amount, on failure it is what it was (no
\* partial debit).
C2_DebitIffEnough ==
    \A p \in Running :
        LET c == call[p]
            before == Qty(c.pre, c.btype)
            after == Qty(data[p], c.btype)
        IN  (c.op \in DebitOps /\ GoodArgs(c) /\ Returned(p)) =>
                /\ (c.ret = "True") <=> (c.amount <= before)
                /\ c.ret = "True" => after = before - c.amount
                /\ c.ret = "False" => after = before

\* C2's case: a debit of exactly the whole stock has succeeded and left 0.
C2_Witness ==
    \E p \in Running :
        /\ call[p].op = "remove_blood" /\ call[p].ret = "True"
        /\ call[p].amount = Qty(call[p].pre, call[p].btype)
        /\ Qty(data[p], call[p].btype) = 0

----------------------------------------------------------------------------
(* C3 *)

\* C3: a call of add_blood or remove_blood whose blood type is not one of the
\* 8 codes or whose amount is <= 0 returns False in the step that makes it and
\* leaves everything as it was: the session's document (inventory, donors,
\* patients, logs -- so no log entry is added) and the file.
C3_InvalidCallChangesNothing ==
    [][ \A p \in Sessions :
          ( /\ call'[p] # call[p]
            /\ call'[p].op \in {"add_blood", "remove_blood"}
            /\ ~GoodArgs(call'[p])
            /\ call[p].ret # "pending" )
          => /\ call'[p].ret = "False"
             /\ data' = data
             /\ file' = file
             /\ pc' = pc ]_vars

\* C3's case: add_blood("XX", 500) has been turned away.
C3_Witness ==
    \E p \in Running :
        /\ call[p].op = "add_blood" /\ call[p].btype = "XX" /\ call[p].amount = 500
        /\ call[p].ret = "False"
        /\ data[p] = call[p].pre

----------------------------------------------------------------------------
(* C4 *)

\* how many elements of the sequence s satisfy Test
Count(s, Test(_)) == Len(SelectSeq(s, Test))

\* every document in existence: the sessions' and, once written, the file's
Documents ==
    {data[p] : p \in Running} \cup (IF file.kind = "json" THEN {file.doc} ELSE {})

----------------------------------------------------------------------------
(* C5 *)

\* C5: no document written to the file shows a stock change of add_blood /
\* remove_blood without the audit entry that describes it: whenever the file
\* holds a document whose inventory differs from the one the call started
\* from, its logs are the earlier logs plus the entry of that call.
C5_StockChangeNeverUnlogged ==
    \A p \in Running :
        LET c == call[p]
        IN  ( /\ file.kind = "json"
              /\ c.op \in LedgerOps
              /\ file.doc["inventory"] # c.pre["inventory"] )
            => /\ Len(file.doc["logs"]) = Len(c.pre["logs"]) + 1
               /\ LET e == file.doc["logs"][Len(file.doc["logs"])]
                  IN  /\ e.msg = (IF c.op \in CreditOps THEN "Added" ELSE "Removed")
                      /\ e.key = c.btype
                      /\ e.n = c.amount

----------------------------------------------------------------------------
(* C6 *)

\* C6: a successful add_blood / remove_blood (called directly or by a
\* donation / request) appends exactly one entry to logs -- the earlier
\* entries stay as they were and the new one describes the change -- and a
\* failed one appends none.
C6_OneEntryPerSuccess ==
    \A p \in Running :
        LET c == call[p]
            was == c.pre["logs"]
            now == data[p]["logs"]
        IN  c.op \in LedgerOps =>
              /\ IsPrefix(was, now)
              /\ Len(now) \in {Len(was), Len(was) + 1}
              /\ c.ret = "False" => now = was
              /\ c.ret = "True" =>
                    /\ Len(now) = Len(was) + 1
                    /\ now[Len(now)] =
                          [msg |-> (IF c.op \in CreditOps THEN "Added" ELSE "Removed"),
                           text |-> <<>>, key |-> c.btype, n |-> c.amount,
                           total |-> Qty(data[p], c.btype)]

\* C6's case: a second successful credit has added the second entry.
C6_Witness ==
    \E p \in Running :
        /\ call[p].op = "add_blood" /\ call[p].ret = "True"
        /\ Len(call[p].pre["logs"]) = 1
        /\ Len(data[p]["logs"]) = 2

----------------------------------------------------------------------------
(* C7 *)

\* C7: save() replaces the persisted copy atomically: whenever a session
\* reads the file (load), it finds the complete old document or the complete
\* new one (or no file / a file no session wrote) -- never an empty or
\* half-written one.
C7_ReaderSeesWholeDocument ==
    [][ \A p \in Sessions :
          (pc[p] = "start" /\ pc'[p] # "start") =>
              \/ file.kind \in {"absent", "json"}
              \/ file = CorruptFile ]_vars

----------------------------------------------------------------------------
(* C8 *)

\* C8: every mutating operation has saved when it reports success: when
\* add_blood, remove_blood, log, the donation flow or the request flow has
\* returned True (and when add_blood / remove_blood has returned True to the
\* flow that called it), the file holds exactly the session's document.
C8_SavedBeforeSuccess ==
    \A p \in Running :
        ((pc[p] = "idle" /\ call[p].ret = "True") \/ pc[p] = "rec") =>
            /\ file.kind = "json"
            /\ file.doc = data[p]

\* C8's case: a donation has returned True, record and all.
C8_Witness ==
    \E p \in Running :
        /\ pc[p] = "idle"
        /\ call[p].op = "donate" /\ call[p].ret = "True"
        /\ Len(data[p]["donors"]) = 1
        /\ file.kind = "json" /\ file.doc["donors"] = data[p]["donors"]

----------------------------------------------------------------------------
(* C9 *)

\* C9: with two sessions on the file the last writer wins: whenever the file
\* holds a document, it is exactly the document of the session that wrote
\* last -- whatever another session has changed and saved since that session
\* loaded is gone from it.
C9_LastWriterWins ==
    file.kind = "json" =>
        /\ file.by \in Sessions
        /\ pc[file.by] # "start" => file.doc = data[file.by]

\* C9's case: both sessions are back at the menu, each with an operation that
\* returned True; the file is the other session's, and the credit this
\* session reported is in it neither as stock nor as a log entry.
C9_Witness ==
    \E p \in Sessions : \E q \in Sessions \ {p} :
        /\ pc[p] = "idle" /\ pc[q] = "idle"
        /\ call[p].op = "add_blood" /\ call[p].ret = "True"
        /\ call[q].ret = "True"
        /\ file.kind = "json" /\ file.by = q
        /\ Qty(file.doc, call[p].btype) = Qty(call[p].pre, call[p].btype)
        /\ Qty(data[p], call[p].btype) = Qty(call[p].pre, call[p].btype) + call[p].amount
        /\ \A i \in DOMAIN file.doc["logs"] : file.doc["logs"][i].msg # "Added"

----------------------------------------------------------------------------
(* C10 *)

\* C10: donors, patients and logs are append-only.  In every step of every
\* operation each sequence a session held before is a prefix of the one it
\* holds after, and what the file holds is a prefix of what the running
\* session holds; when the program ends, the file holds each sequence just as
\* the session held it; and a load yields sequences that extend the file's.
C10_AppendOnly ==
    [][ \A p \in Sessions : \A k \in {"donors", "patients", "logs"} :
          LET old == Get(data[p], k, <<>>)
              new == Get(data'[p], k, <<>>)
          IN  CASE pc[p] = "idle" /\ pc'[p] = "start" ->
                      file'.kind = "json" /\ Get(file'.doc, k, <<>>) = old
                [] pc[p] = "start" /\ pc'[p] # "start" ->
                      file.kind = "json" => IsPrefix(Get(file.doc, k, <<>>), new)
                [] OTHER ->
                      /\ IsPrefix(old, new)
                      /\ (file'.kind = "json" /\ pc'[p] \notin {"off", "start"})
                            => IsPrefix(Get(file'.doc, k, <<>>), new)
      ]_vars

\* C10's case: the program has been restarted and has loaded a document with
\* two log entries and a donation record.
C10_Witness ==
    \E p \in Running :
        /\ pc[p] = "idle" /\ call[p] = NoCall
        /\ Len(data[p]["logs"]) = 2
        /\ Len(data[p]["donors"]) = 1

----------------------------------------------------------------------------
(* C11 - C14: load() and the defaulting *)

\* the document the contract promises for an empty start
Defaulted ==
    [inventory |-> [t \in {"A+", "A-", "B+", "B-", "AB+", "AB-", "O+", "O-"} |-> 2000],
     donors |-> <<>>, patients |-> <<>>, logs |-> <<>>]

\* session p runs load() in this step (to its end, or to an exception)
Loads(p) == pc[p] = "start" /\ (pc'[p] # "start" \/ call'[p] # call[p])

\* C11: when the file is there but does not parse, or is not there, load()
\* does not fail and leaves the defaulted document: the 8 default quantities
\* and empty donors, patients and logs.
C11_LoadRecoversFromUnparseable ==
    [][\A p \in Sessions :
          Loads(p) /\ file.kind # "json"
          => /\ call'[p].ret # "raised"
             /\ pc'[p] \in {"load_w", "idle"}
             /\ data'[p] = Defaulted]_vars

\* C12: ensure_structure on an empty document gives an inventory of exactly
\* the 8 codes, each at 2000, and empty donors, patients and logs.
C12_EmptyDocumentDefaults ==
    [][\A p \in Sessions :
          /\ Loads(p) /\ pc'[p] # "start"
          /\ file.kind = "json" => file.doc = EmptyDoc
          => /\ DOMAIN data'[p] = {"inventory", "donors", "patients", "logs"}
             /\ DOMAIN data'[p]["inventory"] =
                    {"A+", "A-", "B+", "B-", "AB+", "AB-", "O+", "O-"}
             /\ \A t \in DOMAIN data'[p]["inventory"] : Qty(data'[p], t) = 2000
             /\ data'[p]["donors"] = <<>>
             /\ data'[p]["patients"] = <<>>
             /\ data'[p]["logs"] = <<>>]_vars

\* C12's case: a session has defaulted a document in which nothing was there
\* to keep, and is about to save it.
C12_Witness ==
    \E p \in Running :
        /\ pc[p] = "load_w" /\ file = open_w(p)
        /\ data[p] = Defaulted

\* C13: ensure_structure keeps every top-level collection that is present,
\* fills only the missing ones, and run a second time changes neither the
\* document in memory nor the file.
C13_DefaultingKeepsAndIsIdempotent ==
    [][\A p \in Sessions :
          /\ Loads(p) /\ pc'[p] # "start" /\ file.kind = "json"
             => /\ \A k \in DOMAIN file.doc : data'[p][k] = file.doc[k]
                /\ \A k \in FIELDS \ DOMAIN file.doc : data'[p][k] = Defaulted[k]
                /\ DOMAIN data'[p] = FIELDS \cup DOMAIN file.doc
                /\ FIELDS \subseteq DOMAIN file.doc => file' = file
          /\ pc[p] = "idle" /\ call'[p].op = "ensure_structure"
                /\ call'[p].pre = data[p]
             => data' = data /\ file' = file /\ pc' = pc]_vars

\* C13's case: a document that held some collections and lacked others has
\* been loaded and saved, and ensure_structure has run on it once more.
C13_Witness ==
    \E p \in Running :
        /\ call[p].op = "ensure_structure"
        /\ Len(data[p]["logs"]) = 1 /\ data[p]["donors"] = <<>>
        /\ DOMAIN data[p]["inventory"] = {"O-"}
        /\ file.kind = "json" /\ file.by = p /\ file.doc = data[p]

\* C14: after load() every one of the 8 codes is a key of the inventory,
\* whatever the file held, and credits and debits keep it so.
C14_AllCodesPresent ==
    \A p \in Running : \A t \in VALID_TYPES : t \in DOMAIN data[p]["inventory"]

----------------------------------------------------------------------------
(* C15 *)

Last(s) == s[Len(s)]

\* the call c is a debit that comes straight after a logged credit of the
\* same blood type and amount
AfterSameCredit(c) ==
    /\ c.op \in DebitOps /\ GoodArgs(c)
    /\ Len(c.pre["logs"]) > 0
    /\ Last(c.pre["logs"]).msg = "Added"
    /\ Last(c.pre["logs"]).key = c.btype
    /\ Last(c.pre["logs"]).n = c.amount

\* C15: a credit of a valid type and amount > 0 succeeds, adds the amount to
\* that type and leaves the other types alone; a debit of the same type and
\* amount straight after it succeeds too and puts every type back at the
\* quantity it had before the credit.
C15_CreditThenDebitRoundTrip ==
    \A p \in Running :
        LET c == call[p] IN
        /\ c.op \in CreditOps /\ GoodArgs(c) /\ Returned(p)
           => /\ c.ret = "True"
              /\ \A t \in VALID_TYPES :
                    Qty(data[p], t) =
                        Qty(c.pre, t) + (IF t = c.btype THEN c.amount ELSE 0)
              /\ Last(data[p]["logs"]).msg = "Added"
              /\ Last(data[p]["logs"]).key = c.btype
              /\ Last(data[p]["logs"]).n = c.amount
              /\ Last(data[p]["logs"]).total = Qty(data[p], c.btype)
        /\ AfterSameCredit(c) /\ Returned(p)
           => /\ c.ret = "True"
              /\ \A t \in VALID_TYPES :
                    Qty(data[p], t) =
                        IF t = c.btype
                        THEN Last(c.pre["logs"]).total - c.amount
                        ELSE Qty(c.pre, t)

\* C15's case: 500 units were credited to a type that stood at 2000 and then
\* debited again; the type stands at 2000.
C15_Witness ==
    \E p \in Running :
        /\ AfterSameCredit(call[p]) /\ call[p].ret = "True"
        /\ Last(call[p].pre["logs"]).total = 2500
        /\ \A t \in VALID_TYPES : Qty(data[p], t) = 2000

----------------------------------------------------------------------------
(* C16 *)

ReadOps == {"check_alerts", "print_inventory"}

QueryOps == {"search", "report", "history"}

\* C16: the low-stock check and the inventory listing change nothing, in
\* memory or on disk; a search, a report or a history view leaves inventory,
\* donors and patients as they were and, once done, has appended exactly one
\* entry to the logs.
C16_QueriesDoNotMutate ==
    [][\A p \in Sessions :
          /\ call'[p].op \in ReadOps /\ call'[p] # call[p]
             => data' = data /\ file' = file
          /\ call'[p].op \in QueryOps
             => /\ \A k \in {"inventory", "donors", "patients"} :
                        data'[p][k] = call'[p].pre[k]
                /\ call'[p].ret = "True"
                   => /\ Len(data'[p]["logs"]) = Len(call'[p].pre["logs"]) + 1
                      /\ IsPrefix(call'[p].pre["logs"], data'[p]["logs"])
                      /\ file'.kind = "json"
                      /\ \A k \in {"inventory", "donors", "patients"} :
                            file'.doc[k] = call'[p].pre[k]]_vars

\* C16's case: with a donation on record and a type below the threshold,
\* the low-stock check has just reported it.
C16_Witness ==
    \E p \in Running :
        /\ call[p].op = "check_alerts" /\ call[p].ret = "True"
        /\ Len(data[p]["donors"]) + Len(data[p]["patients"]) > 0

\* C16's other case: a search over a non-empty donors list is done.
C16_WitnessSearch ==
    \E p \in Running :
        /\ call[p].op = "search" /\ call[p].ret = "True"
        /\ Len(data[p]["donors"]) > 0

----------------------------------------------------------------------------
(* C17 *)

\* C17: when a save() fails during a credit or a debit, the operation does
\* not report success and has not happened: the session's inventory and logs
\* are what they were before the call.
C17_FailedSaveLeavesLedgerAsBefore ==
    \A p \in Running :
        call[p].op \in LedgerOps /\ call[p].ret = "raised"
        => /\ data[p]["inventory"] = call[p].pre["inventory"]
           /\ data[p]["logs"] = call[p].pre["logs"]

----------------------------------------------------------------------------
(* C18 *)

CasePairs == {<<"A", "a">>, <<"B", "b">>, <<"O", "o">>, <<"L", "l">>}

\* the same character, case aside
SameLetter(a, b) == a = b \/ <<a, b>> \in CasePairs \/ <<b, a>> \in CasePairs

\* term occurs in text, case aside
InText(term, text) ==
    \E i \in 0..(Len(text) - Len(term)) :
        \A k \in 1..Len(term) : SameLetter(term[k], text[i + k])

DecimalDigit == <<"0", "1", "2", "3", "4", "5", "6", "7", "8", "9">>

\* term is a decimal numeral of n (leading zeros allowed)
NumeralOf(term, n) ==
    /\ Len(term) > 0 /\ n >= 0 /\ n < 10 ^ Len(term)
    /\ \A i \in 1..Len(term) :
          term[i] = DecimalDigit[((n \div (10 ^ (Len(term) - i))) % 10) + 1]

\* term is the blood-type code, case aside
SameCode(term, btype) ==
    /\ Len(term) = Len(chars(btype))
    /\ \A k \in 1..Len(term) : SameLetter(term[k], chars(btype)[k])

\* at least one of the three criteria of the contract holds
Criterion(term, r) ==
    \/ InText(term, r.name)
    \/ NumeralOf(term, r.id)
    \/ SameCode(term, r.blood_type)

\* the records a search over c.pre should return
Expected(c) ==
    SelectSeq(c.pre[c.arg[1]], LAMBDA r : Criterion(Tail(c.arg), r))

\* C18: a search returns exactly the records that meet at least one
\* criterion (name contains the term, case aside; the term is numeric and
\* equals the id; the term is the blood-type code, case aside), in the
\* records' order, each once.
C18_SearchReturnsExactlyTheMatches ==
    \A p \in Running :
        call[p].op = "search"
        => /\ call[p].ret # "raised"
           /\ call[p].out = Expected(call[p])

\* Whenever search_records does return, its results are exactly those
\* records.
SearchExactWhenItReturns ==
    \A p \in Running :
        call[p].op = "search" /\ call[p].ret # "raised"
        => call[p].out = Expected(call[p])

\* a search over two records has returned both, and one has returned only
\* the second
SearchExactReached ==
    /\ \E p \in Running :
        /\ call[p].op = "search" /\ call[p].ret = "True"
        /\ Len(call[p].pre["donors"]) = 2 /\ call[p].arg[1] = "donors"
        /\ Len(call[p].out) = 1 /\ call[p].out[1] = call[p].pre["donors"][2]
        /\ call[p].pre["donors"][1] # call[p].pre["donors"][2]

----------------------------------------------------------------------------
(* C19 *)

\* the sum of field f over the records of s whose blood type is t
RECURSIVE SumOf(_, _, _)
SumOf(s, f, t) ==
    IF Len(s) = 0 THEN 0
    ELSE SumOf(Tail(s), f, t) + (IF Head(s).blood_type = t THEN Head(s)[f] ELSE 0)

\* C19: from a fresh start, with donation and request flows only, between
\* operations every type's quantity is 2000 plus what the donors records of
\* that type donated minus what the patients records of that type required.
C19_StockConservation ==
    \A p \in Running :
        pc[p] = "idle"
        => \A t \in VALID_TYPES :
              Qty(data[p], t) =
                  2000 + SumOf(data[p]["donors"], "donated_amount", t)
                       - SumOf(data[p]["patients"], "required_amount", t)

\* C19's case: a donation of one type and then a request of another have
\* gone through; one quantity is above 2000 and one below.
C19_Witness ==
    \E p \in Running :
        /\ pc[p] = "idle"
        /\ Len(data[p]["donors"]) = 1 /\ Len(data[p]["patients"]) = 1
        /\ \E t \in VALID_TYPES : Qty(data[p], t) > 2000
        /\ \E t \in VALID_TYPES : Qty(data[p], t) < 2000
        /\ call[p].op = "request_blood" /\ call[p].ret = "True"

====
